---- MODULE Spec2Model ----
(***************************************************************************)
(* Model of llm-d-inference-sim-custom-dataset/JsonToSQLiteConverter.py:   *)
(* the conversion of a folder of conversation files into rows of the llmd  *)
(* table.                                                                  *)
(*                                                                         *)
(* Python values are tagged records [t |-> type, v |-> payload]:           *)
(*   str   v = the sequence of its characters (one-character strings)      *)
(*   list  v = the sequence of its items                                   *)
(*   dict  v = the sequence of its <<key, value>> pairs, insertion order   *)
(*   None  v = <<>>                                                        *)
(* The outcome of a call is [t |-> "raise", v |-> exception class] when it *)
(* raises, and the returned value otherwise.                               *)
(***************************************************************************)
EXTENDS Integers, Sequences, FiniteSets, TLC

VARIABLES
    folder_exists,    \* whether data_folder_path exists
    entries,          \* data_folder.glob('*'): the files of the folder, in glob order
    db,               \* the file at db_path: [exists, rows]
    pc,               \* position in convert_conversations_to_sqlite / main
    session,          \* "none", "open" or "closed"
    pending,          \* rows added to the session and not yet committed
    conv_idx,         \* number of folder entries the for loop has taken (conv_file = entries[conv_idx])
    result_dicts,     \* result of process_conversation_file(conv_file)
    k,                \* position of the inner for loop in result_dicts
    processed_count,
    error_count,
    raised,           \* exception that left convert_conversations_to_sqlite, or "none"
    exit_code         \* what main returned, or -1 while it runs

vars == <<folder_exists, entries, db, pc, session, pending, conv_idx, result_dicts,
          k, processed_count, error_count, raised, exit_code>>

(***************************************************************************)
(* Bounds of the model.                                                    *)
(***************************************************************************)
MaxFiles == 2     \* files in the folder
MaxConvs == 3     \* conversations in one sample list document
MaxMsgs == 2      \* messages in one conversation of the exhaustive set

(***************************************************************************)
(* Python values.                                                          *)
(***************************************************************************)
PyStr(chars) == [t |-> "str", v |-> chars]
PyList(items) == [t |-> "list", v |-> items]
PyDict(pairs) == [t |-> "dict", v |-> pairs]
None == [t |-> "None", v |-> <<>>]
Raise(exc) == [t |-> "raise", v |-> exc]

IsRaise(x) == x.t = "raise"

\* key in d
HasKey(d, key) == \E i \in 1..Len(d.v) : d.v[i][1] = key

\* d.get(key): the value of the key, None when absent
DictGet(d, key) ==
    IF HasKey(d, key)
    THEN d.v[CHOOSE i \in 1..Len(d.v) : d.v[i][1] = key][2]
    ELSE None

\* list(d.values())
DictValues(d) == [i \in 1..Len(d.v) |-> d.v[i][2]]

\* str.isspace() of one character (ASCII whitespace)
IsSpace(c) == c \in {" ", "\t", "\n", "\r", "\f"}

\* not s.strip()
StripIsEmpty(chars) == \A i \in 1..Len(chars) : IsSpace(chars[i])

\* str.split() with no separator: maximal runs of non-whitespace, in order
RECURSIVE SplitFrom(_, _, _)
SplitFrom(chars, i, cur) ==
    IF i > Len(chars)
    THEN IF cur = <<>> THEN <<>> ELSE <<cur>>
    ELSE IF IsSpace(chars[i])
         THEN (IF cur = <<>> THEN <<>> ELSE <<cur>>) \o SplitFrom(chars, i + 1, <<>>)
         ELSE SplitFrom(chars, i + 1, Append(cur, chars[i]))

Split(chars) == SplitFrom(chars, 1, <<>>)

\* Texts of the program
UserHeader == <<"#", "#", "#", " ", "u", "s", "e", "r", ":", "\n">>
AssistantHeader == <<"#", "#", "#", " ", "a", "s", "s", "i", "s", "t", "a", "n", "t", ":", "\n">>
R_human == PyStr(<<"h", "u", "m", "a", "n">>)
R_user == PyStr(<<"u", "s", "e", "r">>)
R_assistant == PyStr(<<"a", "s", "s", "i", "s", "t", "a", "n", "t">>)

(***************************************************************************)
(* generate_full_prompt, get_prompt_hash, process_messages.                *)
(***************************************************************************)
PyInt(n) == [t |-> "int", v |-> n]

\* f"{x}" of a message content: the text itself for a str, "None" for None
\* (the contents of the model are str or absent; other types are not modelled)
Format(x) == IF x.t = "str" THEN x.v ELSE <<"N", "o", "n", "e">>

\* PromptPart with the 'user' role left out of line 37
PromptPart_humanOnly(msg) ==
    IF msg.t # "dict" THEN Raise("AttributeError")
    ELSE IF DictGet(msg, "role") = R_human
         THEN IF HasKey(msg, "content")
              THEN PyStr(UserHeader \o Format(DictGet(msg, "content")) \o <<"\n">>)
              ELSE Raise("KeyError")
         ELSE IF DictGet(msg, "role") = R_assistant
              THEN IF HasKey(msg, "content")
                   THEN PyStr(AssistantHeader \o Format(DictGet(msg, "content")) \o <<"\n">>)
                   ELSE Raise("KeyError")
              ELSE PyStr(<<>>)

\* One turn of the loop of generate_full_prompt: the text a message adds to
\* full_prompt, or the exception it raises
PromptPart(msg) ==
    IF msg.t # "dict" THEN Raise("AttributeError")      \* msg.get
    ELSE IF DictGet(msg, "role") \in {R_human, R_user}
         THEN IF HasKey(msg, "content")
              THEN PyStr(UserHeader \o Format(DictGet(msg, "content")) \o <<"\n">>)
              ELSE Raise("KeyError")
         ELSE IF DictGet(msg, "role") = R_assistant
              THEN IF HasKey(msg, "content")
                   THEN PyStr(AssistantHeader \o Format(DictGet(msg, "content")) \o <<"\n">>)
                   ELSE Raise("KeyError")
              ELSE PyStr(<<>>)

RECURSIVE PromptFrom(_, _, _)
PromptFrom(items, i, full_prompt) ==
    IF i > Len(items) - 1
    THEN PyStr(full_prompt)
    ELSE LET part == PromptPart(items[i])
         IN  IF IsRaise(part) THEN part
             ELSE PromptFrom(items, i + 1, full_prompt \o part.v)

\* messages[:-1] is a slice of a list; on a dict it is a lookup of a slice key,
\* which raises (TypeError: unhashable type, KeyError from Python 3.12 on)
generate_full_prompt(messages) ==
    IF messages.t = "list" THEN PromptFrom(messages.v, 1, <<>>)
    ELSE IF messages.t = "str"
         THEN IF Len(messages.v) > 1 THEN Raise("AttributeError") ELSE PyStr(<<>>)
         ELSE Raise("TypeError")

\* hashlib.sha256(full_prompt.encode()).digest(): the digest is kept symbolic,
\* named by the text it is the digest of
get_prompt_hash(full_prompt) == [t |-> "bytes", v |-> <<"sha256", full_prompt>>]

\* Lines 66-67: the response of the last message, split into its tokens
GenTokens(last) ==
    IF last.t # "dict" THEN Raise("AttributeError")      \* messages[-1].get
    ELSE IF DictGet(last, "role") = R_assistant
         THEN IF ~HasKey(last, "content") THEN Raise("KeyError")
              ELSE IF DictGet(last, "content").t # "str" THEN Raise("AttributeError")
              ELSE LET tokens == Split(DictGet(last, "content").v)
                   IN  PyList([i \in 1..Len(tokens) |-> PyStr(tokens[i])])
         ELSE PyList(<<>>)

\* messages[-1] of a list or of a str
LastOf(messages) ==
    IF messages.t = "list" THEN messages.v[Len(messages.v)]
    ELSE PyStr(<<messages.v[Len(messages.v)]>>)

\* process_messages with the test len(messages) > 1 left out of line 58
process_messages_anyLength(messages) ==
    LET full_prompt == generate_full_prompt(messages)
    IN  IF IsRaise(full_prompt) THEN full_prompt
        ELSE IF StripIsEmpty(full_prompt.v) THEN None
        ELSE LET gen_tokens == GenTokens(LastOf(messages))
             IN  IF IsRaise(gen_tokens) THEN gen_tokens
                 ELSE PyDict(<< <<"prompt_hash", get_prompt_hash(full_prompt.v)>>,
                                <<"gen_tokens", gen_tokens>>,
                                <<"n_gen_tokens", PyInt(Len(gen_tokens.v))>> >>)

process_messages(messages) ==
    LET full_prompt == generate_full_prompt(messages)
    IN  IF IsRaise(full_prompt) THEN full_prompt
        ELSE IF StripIsEmpty(full_prompt.v) /\ Len(messages.v) > 1 THEN None
        ELSE IF Len(messages.v) = 0 THEN Raise("IndexError")      \* messages[-1]
        ELSE LET gen_tokens == GenTokens(LastOf(messages))
             IN  IF IsRaise(gen_tokens) THEN gen_tokens
                 ELSE PyDict(<< <<"prompt_hash", get_prompt_hash(full_prompt.v)>>,
                                <<"gen_tokens", gen_tokens>>,
                                <<"n_gen_tokens", PyInt(Len(gen_tokens.v))>> >>)

(***************************************************************************)
(* process_conversation_file.  A file is [name, suffix, text]; text is     *)
(* [well_formed, data]: whether the parser accepts it and the document it  *)
(* parses to.                                                              *)
(***************************************************************************)
\* file_path.suffix.lower(), on the suffixes of the model
Lower(suffix) ==
    CASE suffix = ".JSON" -> ".json"
      [] suffix = ".YAML" -> ".yaml"
      [] OTHER -> suffix

\* list(map(process_messages, data)): the results, or the first exception
RECURSIVE MapProcess(_, _, _)
MapProcess(items, i, acc) ==
    IF i > Len(items) THEN PyList(acc)
    ELSE LET r == process_messages(items[i])
         IN  IF IsRaise(r) THEN r ELSE MapProcess(items, i + 1, Append(acc, r))

process_conversation_file(file) ==
    IF Lower(file.suffix) \notin {".yaml", ".json"} THEN Raise("Exception")
    ELSE IF ~file.text.well_formed
         THEN Raise(IF Lower(file.suffix) = ".yaml" THEN "YAMLError" ELSE "JSONDecodeError")
    ELSE LET data == file.text.data
         IN  IF data.t = "list" THEN MapProcess(data.v, 1, <<>>)
             ELSE IF data.t = "dict"
                  THEN IF HasKey(data, "content") /\ HasKey(data, "role")
                       THEN LET r == process_messages(data)
                            IN  IF IsRaise(r) THEN r ELSE PyList(<<r>>)
                       ELSE MapProcess(DictValues(data), 1, <<>>)
                  ELSE None

\* if result_dicts:
Truthy(x) == x.t = "list" /\ Len(x.v) > 0

(***************************************************************************)
(* The folders and database files the runs start from.                     *)
(***************************************************************************)
T_hi == <<"h", "i">>
T_x == <<"x">>
T_hello_world == <<"h", "e", "l", "l", "o", " ", "w", "o", "r", "l", "d">>
T_foo_bar == <<"f", "o", "o", " ", "b", "a", "r">>
R_system == PyStr(<<"s", "y", "s", "t", "e", "m">>)

Msg(role, content) == PyDict(<< <<"role", role>>, <<"content", PyStr(content)>> >>)

RECURSIVE SeqsOfLen(_, _)
SeqsOfLen(S, n) ==
    IF n = 0 THEN {<<>>}
    ELSE {Append(q, x) : q \in SeqsOfLen(S, n - 1), x \in S}

SeqsUpTo(S, n) == UNION {SeqsOfLen(S, m) : m \in 0..n}

\* Every conversation of 1..MaxMsgs messages over these roles and contents
Roles == {R_human, R_user, R_assistant, R_system}
Contents == {<<>>, T_hi, T_hello_world}
Messages == {Msg(r, c) : r \in Roles, c \in Contents}
Conversations == {PyList(q) : q \in SeqsUpTo(Messages, MaxMsgs) \ {<<>>}}

ValidConv == PyList(<<Msg(R_user, T_hi), Msg(R_assistant, T_hello_world)>>)
EmptyPromptConv == PyList(<<Msg(R_system, T_x), Msg(R_assistant, <<>>)>>)

JsonFile(data) == [suffix |-> ".json", text |-> [well_formed |-> TRUE, data |-> data]]
YamlFile(data) == [suffix |-> ".yaml", text |-> [well_formed |-> TRUE, data |-> data]]

\* a list of conversations: every list of up to MaxConvs of the two sample
\* conversations, and every single conversation
ListFiles ==
    {JsonFile(PyList(q)) : q \in SeqsUpTo({ValidConv, EmptyPromptConv}, MaxConvs)}
        \cup {JsonFile(PyList(<<c>>)) : c \in Conversations}

\* a.json = [{"role":"user","content":"hi"},{"role":"assistant","content":"hello world"}]
FlatListFile == JsonFile(PyList(<<Msg(R_user, T_hi), Msg(R_assistant, T_hello_world)>>))
\* the same conversation inside a list of conversations
NestedListFile == JsonFile(PyList(<<ValidConv>>))
\* {"role":"assistant","content":"foo bar"}
SingleMessageFile == JsonFile(Msg(R_assistant, T_foo_bar))
\* b.yaml = {conv1: [...], conv2: [...]}
MappingFile == YamlFile(PyDict(<< <<"conv1", ValidConv>>, <<"conv2", ValidConv>> >>))
MixedFile == JsonFile(PyList(<<ValidConv, EmptyPromptConv, ValidConv>>))
NullFile == YamlFile(None)
UpperCaseFile == [suffix |-> ".JSON", text |-> [well_formed |-> TRUE, data |-> PyList(<<>>)]]
MalformedFile == [suffix |-> ".json", text |-> [well_formed |-> FALSE, data |-> None]]
MalformedYamlFile == [suffix |-> ".YAML", text |-> [well_formed |-> FALSE, data |-> None]]
TextFile == [suffix |-> ".txt", text |-> [well_formed |-> FALSE, data |-> None]]

SampleFiles ==
    {NestedListFile, MixedFile, FlatListFile, SingleMessageFile, MappingFile, NullFile,
     UpperCaseFile, MalformedFile, MalformedYamlFile, TextFile}

\* The folders: up to MaxFiles of the sample files, or one list file
Folders == SeqsUpTo(SampleFiles, MaxFiles) \cup {<<f>> : f \in ListFiles}

\* A row an earlier run left in the table
OldRow ==
    [id |-> 1, prompt_hash |-> get_prompt_hash(<<>>), gen_tokens |-> PyList(<<>>),
     n_gen_tokens |-> PyInt(0)]

Databases == {[exists |-> FALSE, rows |-> <<>>], [exists |-> TRUE, rows |-> <<OldRow>>]}

Init ==
    /\ folder_exists \in BOOLEAN
    /\ entries \in (IF folder_exists THEN Folders ELSE {<<>>})
    /\ db \in Databases
    /\ pc = "start"
    /\ session = "none"
    /\ pending = <<>>
    /\ conv_idx = 0
    /\ result_dicts = None
    /\ k = 0
    /\ processed_count = 0
    /\ error_count = 0
    /\ raised = "none"
    /\ exit_code = -1

(***************************************************************************)
(* convert_conversations_to_sqlite and main.                               *)
(***************************************************************************)
\* create_engine + Base.metadata.create_all: the file and the llmd table exist
\* afterwards; rows already in the table stay
create_database(file) == [file EXCEPT !.exists = TRUE]

\* LlmdPrompt(prompt_hash=result['prompt_hash'], ...)
LlmdPrompt(result) ==
    [prompt_hash |-> DictGet(result, "prompt_hash"),
     gen_tokens |-> DictGet(result, "gen_tokens"),
     n_gen_tokens |-> DictGet(result, "n_gen_tokens")]

\* The table after session.commit(): the pending rows are inserted in the order
\* they were added, each with the next id
Committed(rows, new) ==
    rows \o [i \in 1..Len(new) |-> [id |-> Len(rows) + i] @@ new[i]]

\* Lines 106-107: engine = create_database(db_path); session = Session(engine)
OpenStore ==
    /\ pc = "start"
    /\ db' = create_database(db)
    /\ session' = "open"
    /\ pc' = "check_folder"
    /\ UNCHANGED <<folder_exists, entries, pending, conv_idx, result_dicts, k,
                   processed_count, error_count, raised, exit_code>>

\* Lines 109-111: the folder does not exist
FolderMissing ==
    /\ pc = "check_folder"
    /\ ~folder_exists
    /\ raised' = "ValueError"
    /\ pc' = "raised"
    /\ UNCHANGED <<folder_exists, entries, db, session, pending, conv_idx, result_dicts,
                   k, processed_count, error_count, exit_code>>

\* Lines 109-114: the folder exists; the counters start at 0
FolderFound ==
    /\ pc = "check_folder"
    /\ folder_exists
    /\ processed_count' = 0
    /\ error_count' = 0
    /\ pc' = "loop"
    /\ UNCHANGED <<folder_exists, entries, db, session, pending, conv_idx, result_dicts,
                   k, raised, exit_code>>

\* Lines 117-118: the for loop takes the next entry of the folder
NextFile ==
    /\ pc = "loop"
    /\ conv_idx < Len(entries)
    /\ conv_idx' = conv_idx + 1
    /\ pc' = "load"
    /\ UNCHANGED <<folder_exists, entries, db, session, pending, result_dicts, k,
                   processed_count, error_count, raised, exit_code>>

\* Line 119: process_conversation_file returns
LoadReturns ==
    /\ pc = "load"
    /\ ~IsRaise(process_conversation_file(entries[conv_idx]))
    /\ result_dicts' = process_conversation_file(entries[conv_idx])
    /\ k' = 1
    /\ pc' = "stage"
    /\ UNCHANGED <<folder_exists, entries, db, session, pending, conv_idx,
                   processed_count, error_count, raised, exit_code>>

\* LoadRaises with a commit on the way out, as a finally clause would do
LoadRaises_commits ==
    /\ pc = "load"
    /\ IsRaise(process_conversation_file(entries[conv_idx]))
    /\ raised' = process_conversation_file(entries[conv_idx]).v
    /\ db' = [db EXCEPT !.rows = Committed(db.rows, pending)]
    /\ pending' = <<>>
    /\ pc' = "raised"
    /\ UNCHANGED <<folder_exists, entries, session, conv_idx, result_dicts,
                   k, processed_count, error_count, exit_code>>

\* Line 119: process_conversation_file raises; the call is outside the try, so
\* the exception leaves convert_conversations_to_sqlite
LoadRaises ==
    /\ pc = "load"
    /\ IsRaise(process_conversation_file(entries[conv_idx]))
    /\ raised' = process_conversation_file(entries[conv_idx]).v
    /\ pc' = "raised"
    /\ UNCHANGED <<folder_exists, entries, db, session, pending, conv_idx, result_dicts,
                   k, processed_count, error_count, exit_code>>

\* Lines 120, 133-134: result_dicts is None or empty
NoResults ==
    /\ pc = "stage"
    /\ ~Truthy(result_dicts)
    /\ error_count' = error_count + 1
    /\ pc' = "loop"
    /\ UNCHANGED <<folder_exists, entries, db, session, pending, conv_idx, result_dicts,
                   k, processed_count, raised, exit_code>>

\* StageRow with a commit after every session.add
StageRow_commitsEachRow ==
    /\ pc = "stage"
    /\ Truthy(result_dicts)
    /\ k <= Len(result_dicts.v)
    /\ result_dicts.v[k].t = "dict"
    /\ db' = [db EXCEPT !.rows = Committed(db.rows, <<LlmdPrompt(result_dicts.v[k])>>)]
    /\ processed_count' = processed_count + 1
    /\ k' = k + 1
    /\ UNCHANGED <<folder_exists, entries, pending, pc, session, conv_idx, result_dicts,
                   error_count, raised, exit_code>>

\* Lines 122-129: one turn of the inner for loop on a result that is a dict
StageRow ==
    /\ pc = "stage"
    /\ Truthy(result_dicts)
    /\ k <= Len(result_dicts.v)
    /\ result_dicts.v[k].t = "dict"
    /\ pending' = Append(pending, LlmdPrompt(result_dicts.v[k]))
    /\ processed_count' = processed_count + 1
    /\ k' = k + 1
    /\ UNCHANGED <<folder_exists, entries, db, pc, session, conv_idx, result_dicts,
                   error_count, raised, exit_code>>

\* Lines 123-124, 130-132: the result is None, result['prompt_hash'] raises
\* TypeError; the except clause encloses the whole for loop, so the loop ends
StageFails ==
    /\ pc = "stage"
    /\ Truthy(result_dicts)
    /\ k <= Len(result_dicts.v)
    /\ result_dicts.v[k].t # "dict"
    /\ error_count' = error_count + 1
    /\ pc' = "loop"
    /\ UNCHANGED <<folder_exists, entries, db, session, pending, conv_idx, result_dicts,
                   k, processed_count, raised, exit_code>>

\* Line 122: the inner for loop is exhausted
StageDone ==
    /\ pc = "stage"
    /\ Truthy(result_dicts)
    /\ k > Len(result_dicts.v)
    /\ pc' = "loop"
    /\ UNCHANGED <<folder_exists, entries, db, session, pending, conv_idx, result_dicts,
                   k, processed_count, error_count, raised, exit_code>>

\* Line 117: the outer for loop is exhausted
LoopDone ==
    /\ pc = "loop"
    /\ conv_idx = Len(entries)
    /\ pc' = "commit"
    /\ UNCHANGED <<folder_exists, entries, db, session, pending, conv_idx, result_dicts,
                   k, processed_count, error_count, raised, exit_code>>

\* Line 137: session.commit()
Commit ==
    /\ pc = "commit"
    /\ db' = [db EXCEPT !.rows = Committed(db.rows, pending)]
    /\ pending' = <<>>
    /\ pc' = "close"
    /\ UNCHANGED <<folder_exists, entries, session, conv_idx, result_dicts, k,
                   processed_count, error_count, raised, exit_code>>

\* Lines 138-143: session.close() and the summary
Close ==
    /\ pc = "close"
    /\ session' = "closed"
    /\ pc' = "returned"
    /\ UNCHANGED <<folder_exists, entries, db, pending, conv_idx, result_dicts, k,
                   processed_count, error_count, raised, exit_code>>

\* Lines 152-153, 158: main returns 0
MainReturns ==
    /\ pc = "returned"
    /\ exit_code' = 0
    /\ pc' = "exited"
    /\ UNCHANGED <<folder_exists, entries, db, session, pending, conv_idx, result_dicts,
                   k, processed_count, error_count, raised>>

\* Lines 154-156: main catches the exception and returns 1
MainCatches ==
    /\ pc = "raised"
    /\ exit_code' = 1
    /\ pc' = "exited"
    /\ UNCHANGED <<folder_exists, entries, db, session, pending, conv_idx, result_dicts,
                   k, processed_count, error_count, raised>>

Next ==
    \/ OpenStore
    \/ FolderMissing
    \/ FolderFound
    \/ NextFile
    \/ LoadReturns
    \/ LoadRaises
    \/ NoResults
    \/ StageRow
    \/ StageFails
    \/ StageDone
    \/ LoopDone
    \/ Commit
    \/ Close
    \/ MainReturns
    \/ MainCatches

Spec == Init /\ [][Next]_vars

(***************************************************************************)
(* Properties.                                                             *)
(***************************************************************************)
\* The document of the file the outer loop is at
CurrentData == entries[conv_idx].text.data

\* The conversations the normalizer discovers in a document
NConvs(data) ==
    IF data.t = "list" THEN Len(data.v)
    ELSE IF data.t = "dict"
         THEN IF HasKey(data, "content") /\ HasKey(data, "role") THEN 1 ELSE Len(data.v)
         ELSE 0

\* a file that does not load: unsupported suffix or malformed text
FailsToLoad(file) == Lower(file.suffix) \notin {".json", ".yaml"} \/ ~file.text.well_formed

\* one unit per conversation of a file that holds some, one per file otherwise
UnitsOf(file) ==
    IF FailsToLoad(file) \/ NConvs(file.text.data) = 0 THEN 1 ELSE NConvs(file.text.data)

RECURSIVE SumUnits(_, _)
SumUnits(files, i) == IF i > Len(files) THEN 0 ELSE UnitsOf(files[i]) + SumUnits(files, i + 1)

\* C1: when a run finishes, processed_count + error_count is the number of
\* discovered units of the folder.
C1_EveryUnitCounted ==
    pc = "returned" => processed_count + error_count = SumUnits(entries, 1)

\* C2: after a file with several conversations has been staged, the inner loop
\* has visited every result of the file, whatever conversations failed before.
C2_LaterConversationsProcessed ==
    (pc = "loop" /\ conv_idx > 0 /\ Truthy(result_dicts)) => k = Len(result_dicts.v) + 1

\* C3: an entry that fails to load never ends the run: no exception leaves
\* convert_conversations_to_sqlite while such an entry is being visited.
C3_LoadFailureDoesNotEndRun ==
    (pc = "raised" /\ conv_idx > 0) => ~FailsToLoad(entries[conv_idx])

\* C4: when the source folder does not exist, no step of the run creates or
\* changes the database file.
C4_MissingFolderLeavesDatabase == [][~folder_exists => db' = db]_vars

\* C5: whenever convert_conversations_to_sqlite has been left, by return or by
\* exception, the session it opened is closed.
C5_SessionClosedOnEveryExit ==
    pc \in {"raised", "returned", "exited"} => session = "closed"

\* C6: rows are staged only inside the loop over the folder; the table changes
\* in one step only, the commit, taken with every entry visited and the session
\* still open, and it adds exactly processed_count rows after the rows it held;
\* after the commit nothing is staged or written any more.
C6_SingleFinalCommit ==
    /\ [][pending' # pending =>
            \/ pc = "stage" /\ conv_idx \in 1..Len(entries)
                 /\ Len(pending') = Len(pending) + 1
            \/ pc = "commit" /\ pending' = <<>>]_vars
    /\ [][db'.rows # db.rows =>
            /\ pc = "commit" /\ pc' = "close"
            /\ conv_idx = Len(entries)
            /\ session = "open" /\ session' = "open"
            /\ Len(pending) = processed_count
            /\ Len(db'.rows) = Len(db.rows) + processed_count
            /\ SubSeq(db'.rows, 1, Len(db.rows)) = db.rows
            /\ \A i \in 1..Len(pending) :
                 /\ db'.rows[Len(db.rows) + i].prompt_hash = pending[i].prompt_hash
                 /\ db'.rows[Len(db.rows) + i].gen_tokens = pending[i].gen_tokens]_vars
    /\ [][(pc \in {"close", "returned", "exited"}) =>
            (db' = db /\ pending' = pending /\ pc' # "commit")]_vars

C6_Witness ==
    /\ pc = "returned"
    /\ Len(entries) > 1
    /\ processed_count > 1
    /\ error_count > 0
    /\ Len(db.rows) > processed_count

\* The tokens of the contents of the model, written out
ExpectedTokens(content) ==
    CASE content = T_hi -> <<PyStr(T_hi)>>
      [] content = T_hello_world ->
           <<PyStr(<<"h", "e", "l", "l", "o">>), PyStr(<<"w", "o", "r", "l", "d">>)>>
      [] OTHER -> <<>>

\* The outcome C7 states for a conversation [user message c1, assistant message c2]
OneRowOutcome(c1, c2) ==
    /\ pc = "commit" =>
         pending = <<[prompt_hash |-> get_prompt_hash(UserHeader \o c1 \o <<"\n">>),
                      gen_tokens |-> PyList(ExpectedTokens(c2)),
                      n_gen_tokens |-> PyInt(Len(ExpectedTokens(c2)))]>>
    /\ pc \in {"commit", "close", "returned", "exited"} =>
         raised = "none" /\ processed_count = 1 /\ error_count = 0

\* C7 as stated: a file whose document is the flat list [user message,
\* assistant message] yields one row, with the prompt of the user message and
\* the tokens of the assistant message, processed_count = 1, error_count = 0.
C7_FlatListYieldsOneRow ==
    \A u \in {R_user, R_human}, c1 \in Contents, c2 \in Contents :
        (folder_exists /\ entries = <<JsonFile(PyList(<<Msg(u, c1), Msg(R_assistant, c2)>>))>>)
            => OneRowOutcome(c1, c2)

\* C7 amended: a file whose document is a list holding the one conversation
\* [user message, assistant message] yields one row, with the prompt of the
\* user message and the tokens of the assistant message, processed_count = 1,
\* error_count = 0.
C7_NestedListYieldsOneRow ==
    \A u \in {R_user, R_human}, c1 \in Contents, c2 \in Contents :
        (folder_exists
           /\ entries = <<JsonFile(PyList(<<PyList(<<Msg(u, c1), Msg(R_assistant, c2)>>)>>))>>)
            => OneRowOutcome(c1, c2)

C7_Witness ==
    /\ entries = <<NestedListFile>>
    /\ pc = "returned"
    /\ processed_count = 1
    /\ Len(db.rows) > 0
    /\ db.rows[Len(db.rows)].n_gen_tokens = PyInt(2)

\* C8: a file whose document is one message mapping yields one row and no
\* error: the run over it alone ends with exit code 0, processed_count = 1,
\* error_count = 0.
C8_SingleMessageYieldsOneRow ==
    (folder_exists /\ entries = <<SingleMessageFile>> /\ pc = "exited")
        => (exit_code = 0 /\ processed_count = 1 /\ error_count = 0)

\* a Conversation: a list of one or more messages, each with a role and a content
IsConversation(c) ==
    /\ c.t = "list"
    /\ Len(c.v) >= 1
    /\ \A i \in 1..Len(c.v) :
         /\ c.v[i].t = "dict"
         /\ HasKey(c.v[i], "role") /\ DictGet(c.v[i], "role").t = "str"
         /\ HasKey(c.v[i], "content") /\ DictGet(c.v[i], "content").t = "str"

Recognized(msg) == DictGet(msg, "role") \in {R_human, R_user, R_assistant}

\* C9: for every conversation of a loaded list file, the result is None exactly
\* when the conversation has more than one message and the prompt built from
\* all messages but the last is empty or whitespace-only, which is when none of
\* those messages has a recognized role; a conversation of one message gets a
\* row with the hash of the empty prompt; a conversation of several messages
\* with unrecognized roles only gets None.
C9_EmptyPromptSignal ==
    (pc = "stage" /\ CurrentData.t = "list") =>
        \A i \in 1..Len(CurrentData.v) :
            LET c == CurrentData.v[i]
                r == result_dicts.v[i]
            IN  IsConversation(c) =>
                  /\ (r = None) <=>
                        (Len(c.v) > 1 /\ StripIsEmpty(generate_full_prompt(c).v))
                  /\ (r = None) <=>
                        (Len(c.v) > 1 /\ \A j \in 1..(Len(c.v) - 1) : ~Recognized(c.v[j]))
                  /\ Len(c.v) = 1 =>
                        (r.t = "dict" /\ DictGet(r, "prompt_hash") = get_prompt_hash(<<>>))
                  /\ (Len(c.v) > 1 /\ \A j \in 1..Len(c.v) : ~Recognized(c.v[j]))
                        => r = None

C9_Witness ==
    /\ pc = "stage"
    /\ CurrentData.t = "list"
    /\ \E i \in 1..Len(CurrentData.v) :
         /\ IsConversation(CurrentData.v[i])
         /\ Len(CurrentData.v[i].v) > 1
         /\ result_dicts.v[i] = None
    /\ \E i \in 1..Len(CurrentData.v) : result_dicts.v[i].t = "dict"

\* C10: the step in which an exception leaves the run, and every step after
\* it, leaves the rows of the table as they were; an exception that has left
\* the run stays; and the rows of the table change only in the commit step of a
\* run no exception has left.
C10_AllOrNothing ==
    /\ [][raised' # "none" => db'.rows = db.rows]_vars
    /\ [][raised # "none" => raised' = raised /\ pc' \in {"raised", "exited"}]_vars
    /\ [][db'.rows # db.rows => pc = "commit" /\ raised = "none"]_vars

C10_Witness ==
    /\ pc = "exited"
    /\ raised # "none"
    /\ processed_count > 0
    /\ Len(pending) = processed_count
    /\ Len(db.rows) <= 1

====
